---- MODULE Spec2Model ----
(***************************************************************************)
(* State-machine model of ports/sample_app_port.c: the advertisement       *)
(* parser (adv_extract), the device cache (g_devices, g_latest_index),     *)
(* the NimBLE discovery callback (gap_event_cb) running on the host task,  *)
(* and the port's request handler (handle_call) running on the scheduler.  *)
(* Byte buffers are sequences of 0..255; C index i is TLA+ index i+1.      *)
(***************************************************************************)
EXTENDS Integers, Sequences, FiniteSets, TLC

\* ---------------------------------------------------------------- constants

SWITCHBOT_COMPANY_ID_LE0 == 105
SWITCHBOT_COMPANY_ID_LE1 == 9
SWITCHBOT_SVC_UUID16_LE0 == 61
SWITCHBOT_SVC_UUID16_LE1 == 253

OPCODE_PING == 1
OPCODE_ECHO == 2
OPCODE_BLE_START == 16
OPCODE_BLE_STOP == 17
OPCODE_LATEST == 18
OPCODE_LATEST_FOR == 19

MAX_DEVICES == 12
MAX_BLE_DATA == 31

\* Bounds of the environment: the number of distinct sender addresses (Spec),
\* of distinct rssi values (SpecData), and of ingested events (SpecTear).
NumAddrs == 2
NumRssi == 2
MaxEvents == 3

\* Bounds of the buffers given to adv_extract on its own (SpecParse): the
\* number of AD structures put together, and the number of bytes by which
\* data_len may fall short of them.
MaxParts == 3
MaxCut == 5

\* ------------------------------------------------------------------ helpers

Zeros(n) == [k \in 1..n |-> 0]

\* memcpy(dst, src, n) on buffers: the first n bytes of dst are overwritten.
MemCpy(dst, src, n) == [k \in 1..Len(dst) |-> IF k <= n THEN src[k] ELSE dst[k]]

\* (uint8_t) of a signed byte.
U8(x) == (x + 256) % 256

\* ------------------------------------------------------------- adv_extract

adv_extract_init ==
    [mfg |-> 0, mfg_len |-> 0, svc |-> 0, svc_len |-> 0,
     has_mfg |-> FALSE, has_svc |-> FALSE]

\* The loop counter i is a uint8_t: a run of more iterations than it has
\* values has repeated a value of i, and so never ends.
UINT8_VALUES == 256

\* A run of adv_extract: the extract, the set of indices of data it has read,
\* and the number of iterations of its loop.
adv_run_init == [out |-> adv_extract_init, reads |-> {}, iters |-> 0]

\* Mutant of adv_truncated: a structure may end one byte past the buffer.
adv_truncated_off_by_one(i, len, data_len) == i + len > data_len

\* Line 104: the structure at i does not fit in the buffer.
adv_truncated(i, len, data_len) ==
    (i % 65536) + (len % 65536) >= (data_len % 65536)

\* The indices lines 108-127 read: the type, and for service data the UUID
\* bytes (the second only when the first matches).
adv_structure_reads(data, i, len) ==
    LET type    == data[i + 2]
        val     == i + 2
        val_len == (len - 1) % 256
    IN {i + 1}
       \cup (IF type = 22 /\ val_len >= 2 THEN {val} ELSE {})
       \cup (IF /\ type = 22 /\ val_len >= 2
                /\ data[val + 1] = SWITCHBOT_SVC_UUID16_LE0
              THEN {val + 1} ELSE {})

\* Mutant of adv_structure: the first manufacturer structure wins.
adv_structure_first_wins(data, i, len, out) ==
    LET type    == data[i + 2]
        val     == i + 2
        val_len == (len - 1) % 256
        o1 == IF type = 255 /\ val_len >= 2 /\ ~out.has_mfg
                THEN [out EXCEPT !.mfg = val, !.mfg_len = val_len, !.has_mfg = TRUE]
                ELSE out
        o2 == IF /\ type = 22 /\ val_len >= 2
                 /\ data[val + 1] = SWITCHBOT_SVC_UUID16_LE0
                 /\ data[val + 2] = SWITCHBOT_SVC_UUID16_LE1
                THEN [o1 EXCEPT !.svc = val + 2, !.svc_len = (val_len - 2) % 256,
                                !.has_svc = TRUE]
                ELSE o1
    IN o2

\* One AD structure [len][type][value...] at offset i, all of it inside the
\* buffer: the effect of lines 108-127 on the extract.
adv_structure(data, i, len, out) ==
    LET type    == data[i + 2]
        val     == i + 2
        val_len == (len - 1) % 256
        o1 == IF type = 255 /\ val_len >= 2
                THEN [out EXCEPT !.mfg = val, !.mfg_len = val_len, !.has_mfg = TRUE]
                ELSE out
        o2 == IF /\ type = 22 /\ val_len >= 2
                 /\ data[val + 1] = SWITCHBOT_SVC_UUID16_LE0
                 /\ data[val + 2] = SWITCHBOT_SVC_UUID16_LE1
                THEN [o1 EXCEPT !.svc = val + 2, !.svc_len = (val_len - 2) % 256,
                                !.has_svc = TRUE]
                ELSE o1
    IN o2

\* Lines 96-130 from the loop test on, with the run so far.
RECURSIVE adv_loop(_, _, _, _)
adv_loop(data, data_len, i, run) ==
    IF ~(i < data_len) THEN run
    ELSE IF run.iters >= UINT8_VALUES THEN [run EXCEPT !.iters = UINT8_VALUES + 1]
    ELSE LET len  == data[i + 1]
             read == [run EXCEPT !.reads = @ \cup {i}, !.iters = @ + 1]
         IN
         IF len = 0 THEN read
         ELSE IF adv_truncated(i, len, data_len) THEN read
         ELSE adv_loop(data, data_len, (i + 1 + len) % 256,
                       [read EXCEPT !.out = adv_structure(data, i, len, @),
                                    !.reads = @ \cup adv_structure_reads(data, i, len)])

adv_run(data, data_len) == adv_loop(data, data_len, 0, adv_run_init)

adv_extract(data, data_len) == adv_run(data, data_len).out

\* The bytes a slice (offset, length) of the extract points at.
Slice(data, off, n) == [k \in 1..n |-> data[off + k]]

\* ------------------------------------------------------------------- cache

Slots == 0..(MAX_DEVICES - 1)

NoAddr == Zeros(6)

\* A zeroed device_cache_t (static storage, and memset in cache_find_or_alloc).
ZeroDevice ==
    [addr |-> NoAddr, in_use |-> FALSE, rssi |-> 0,
     have_mfg |-> FALSE, mfg_len |-> 0, mfg |-> Zeros(MAX_BLE_DATA),
     have_svc |-> FALSE, svc_len |-> 0, svc |-> Zeros(MAX_BLE_DATA),
     device_id |-> 0, have_device_id |-> FALSE]

MinOf(S) == CHOOSE x \in S : \A y \in S : x <= y

\* Mutant of cache_find_or_alloc: a full table gives up its first slot.
cache_find_or_alloc_evict(devs, addr) ==
    LET hit  == {i \in Slots : devs[i].in_use /\ devs[i].addr = addr}
        free == {i \in Slots : ~devs[i].in_use}
        slot == IF free # {} THEN MinOf(free) ELSE 0
    IN IF hit # {} THEN [idx |-> MinOf(hit), devs |-> devs]
       ELSE [idx |-> slot,
             devs |-> [devs EXCEPT ![slot] =
                          [ZeroDevice EXCEPT !.in_use = TRUE, !.addr = addr]]]

\* Mutant of cache_find_or_alloc: the lookup of the address is left out.
cache_find_or_alloc_no_lookup(devs, addr) ==
    LET free == {i \in Slots : ~devs[i].in_use}
    IN IF free # {}
         THEN [idx |-> MinOf(free),
               devs |-> [devs EXCEPT ![MinOf(free)] =
                            [ZeroDevice EXCEPT !.in_use = TRUE, !.addr = addr]]]
         ELSE [idx |-> -1, devs |-> devs]

\* Returns [idx, devs]: the slot index (or -1) and the slot array afterwards.
cache_find_or_alloc(devs, addr) ==
    LET hit  == {i \in Slots : devs[i].in_use /\ devs[i].addr = addr}
        free == {i \in Slots : ~devs[i].in_use}
    IN IF hit # {} THEN [idx |-> MinOf(hit), devs |-> devs]
       ELSE IF free # {}
         THEN [idx |-> MinOf(free),
               devs |-> [devs EXCEPT ![MinOf(free)] =
                            [ZeroDevice EXCEPT !.in_use = TRUE, !.addr = addr]]]
         ELSE [idx |-> -1, devs |-> devs]

is_switchbot_mfg(mfg, mfg_len) ==
    IF mfg_len < 2 THEN FALSE
    ELSE mfg[1] = SWITCHBOT_COMPANY_ID_LE0 /\ mfg[2] = SWITCHBOT_COMPANY_ID_LE1

update_device_id(d) ==
    IF d.have_mfg /\ d.mfg_len >= 8
      THEN [d EXCEPT !.device_id = (d.mfg[7] * 256 + d.mfg[8]) % 65536,
                     !.have_device_id = TRUE]
      ELSE d

\* Mutant of maybe_mark_latest: the service payload is not asked for.
maybe_mark_latest_no_svc(devs, latest, idx) ==
    LET d == devs[idx] IN
    IF d.have_mfg /\ is_switchbot_mfg(d.mfg, d.mfg_len)
      THEN [devs |-> [devs EXCEPT ![idx] = update_device_id(d)],
            latest |-> idx, merged |-> TRUE]
      ELSE [devs |-> devs, latest |-> latest, merged |-> FALSE]

\* Returns [devs, latest, merged]: the slot array, g_latest_index and the result.
maybe_mark_latest(devs, latest, idx) ==
    LET d == devs[idx] IN
    IF d.have_mfg /\ d.have_svc /\ is_switchbot_mfg(d.mfg, d.mfg_len)
      THEN [devs |-> [devs EXCEPT ![idx] = update_device_id(d)],
            latest |-> idx, merged |-> TRUE]
      ELSE [devs |-> devs, latest |-> latest, merged |-> FALSE]

\* ---------------------------------------------------------- reply encoding

make_error(code) == <<1, code>>

make_ok_with_payload(payload) == <<0>> \o payload

\* <<0x00, addr:6, rssi:s8, svc_len:u8, svc:svc_len, mfg_len:u8, mfg:mfg_len>>
reply_latest(d) ==
    <<0>> \o d.addr \o <<U8(d.rssi)>>
          \o <<d.svc_len>> \o SubSeq(d.svc, 1, d.svc_len)
          \o <<d.mfg_len>> \o SubSeq(d.mfg, 1, d.mfg_len)

\* ------------------------------------------------------------ environment

\* The 6-byte address of sender n.
Addr(n) == <<n, 17, 34, 51, 68, 85>>

\* Advertisement buffers the radio delivers.
BufMfgA     == <<9, 255, 105, 9, 0, 0, 0, 0, 18, 52>>    \* SwitchBot, id 0x1234
BufMfgShort == <<3, 255, 105, 9>>                        \* SwitchBot, 2 bytes
BufMfgOther == <<9, 255, 76, 0, 0, 0, 0, 0, 86, 120>>    \* another company
BufSvc      == <<5, 22, 61, 253, 170, 187>>              \* service data FD3D
BufFlags    == <<2, 1, 6>>                               \* neither field
BufMfgBig   == <<33, 255, 105, 9>> \o Zeros(30)          \* 32-byte manufacturer
BufSvcBig   == <<35, 22, 61, 253>> \o Zeros(32)          \* 32-byte service data

BufBoth     == BufMfgA \o BufSvc                         \* both fields

\* Inputs of Spec: several senders, one manufacturer and one service payload.
Senders == 1..NumAddrs
Bufs    == {BufMfgA, BufSvc, BufFlags}
Rssis   == {-60}

\* Inputs of SpecData: one sender, every kind of payload, several rssi values.
DataSenders == {1}
DataBufs    == {BufMfgA, BufMfgShort, BufMfgOther, BufSvc, BufFlags, BufMfgBig}
DataRssis   == {2 * k - 60 : k \in 0..(NumRssi - 1)}

\* Inputs of SpecCap: one sender more than there are slots; every sender is
\* heard once, the first one again and again.
CapSenders == 1..(MAX_DEVICES + 1)
CapAgain   == {1}
CapBufs    == {BufBoth, BufFlags}

\* Inputs of SpecOver: one sender, payloads within the cap and over it.
OverBufs == {BufMfgA, BufSvc, BufFlags, BufMfgBig, BufSvcBig}

\* Inputs of SpecLive: one sender, a payload that merges at once.
LiveBufs == {BufBoth, BufFlags}

\* Inputs of SpecTear: one sender, payloads and rssi values that differ.
TearBufs  == {BufMfgA, BufMfgShort, BufSvc, BufFlags}
TearRssis == {-60, -58}

\* Inputs of SpecParse: buffers put together from up to MaxParts of these
\* pieces, well-formed structures and broken ones.
ParseParts ==
    {<<3, 255, 105, 9>>,          \* manufacturer data, 2 bytes
     <<4, 255, 76, 0, 1>>,        \* manufacturer data, 3 bytes
     <<2, 255, 105>>,             \* manufacturer data, 1 byte: too short
     <<4, 22, 61, 253, 170>>,     \* service data FD3D, 1 byte
     <<3, 22, 61, 253>>,          \* service data FD3D, no byte
     <<3, 22, 61, 0>>,            \* service data of another UUID
     <<2, 22, 61>>,               \* service data too short for a UUID
     <<2, 1, 6>>,                 \* flags
     <<0>>,                       \* a zero length byte
     <<7, 255, 105>>}             \* a declared length past the end

RECURSIVE PartSeqs(_)
PartSeqs(n) ==
    IF n = 0 THEN {<<>>}
    ELSE LET S == PartSeqs(n - 1) IN S \cup {b \o p : b \in S, p \in ParseParts}

\* One long structure in front takes the offsets up to the largest data_len.
ParsePad  == <<246, 1>> \o Zeros(245)
ParsePads == {<<>>, ParsePad}

\* The memory that follows a buffer.
Beyond == <<255, 61, 253, 9>>

ParseBufs == {pad \o b : pad \in ParsePads, b \in PartSeqs(MaxParts)}

\* Requests: a term that is a binary (its bytes) or any other term.
Bin(bytes) == [is_binary |-> TRUE, data |-> bytes]
NotBinary  == [is_binary |-> FALSE, data |-> <<>>]

Reqs ==
    {NotBinary, Bin(<<>>), Bin(<<OPCODE_PING>>), Bin(<<OPCODE_ECHO, 222, 173>>),
     Bin(<<OPCODE_BLE_START>>), Bin(<<OPCODE_BLE_STOP>>), Bin(<<OPCODE_LATEST>>),
     Bin(<<OPCODE_LATEST_FOR, 18, 52>>), Bin(<<OPCODE_LATEST_FOR, 86, 120>>),
     Bin(<<OPCODE_LATEST_FOR, 18>>), Bin(<<OPCODE_LATEST_FOR, 18, 52, 0>>),
     Bin(<<127>>)}

\* Results of nvs_flash_init, and of xSemaphoreCreateMutex (NULL: no heap left).
NvsResults   == {"ESP_OK", "ESP_ERR_NVS_NO_FREE_PAGES", "ESP_ERR_NVS_NEW_VERSION_FOUND",
                 "ESP_FAIL"}
MutexResults == {"mutex", "NULL"}

\* ------------------------------------------------------------------ state

VARIABLES
    g_devices,       \* the slot array
    g_latest_index,  \* -1 or a slot index
    g_lock,          \* "NULL" or "mutex"
    lock_owner,      \* "none", "host" (gap_event_cb) or "port" (handle_call)
    g_ble_started,
    host,            \* NimBLE host task: "off", "running", "synced"
    scanning,        \* a discovery procedure is active
    ipc, ev, ex, idx, was_merged, merged_log,   \* gap_event_cb and its locals
    qpc, req, found, snap, reply,               \* handle_call and its locals
    pre_valid,       \* history: the target record was a valid merged reading
                     \* when this callback found it
    hist,            \* history: the values ingests have left in records
    n_ingests,       \* history: the number of events counted against a budget
    ever_merged,     \* history: some ingest has left a valid merged reading
    adv_pc, adv_data, adv_data_len, adv_st   \* a call of adv_extract on its own

registry == <<g_devices, g_latest_index>>
lockv    == <<g_lock, lock_owner>>
radio    == <<g_ble_started, host, scanning>>
ingv     == <<ipc, ev, ex, idx, was_merged, merged_log>>
qryv     == <<qpc, req, found, snap, reply>>
ghost    == <<pre_valid, hist, n_ingests, ever_merged>>
parsev   == <<adv_pc, adv_data, adv_data_len, adv_st>>
vars     == <<registry, lockv, radio, ingv, qryv, ghost, parsev>>

NoEv    == [addr |-> NoAddr, rssi |-> 0, data |-> <<>>]
NoReq   == [is_binary |-> FALSE, data |-> <<>>]
NoReply == <<>>

\* The state of the driver after loading: static storage is zeroed.
InitDriver ==
    /\ g_devices = [i \in Slots |-> ZeroDevice]
    /\ g_latest_index = -1
    /\ g_lock = "NULL"
    /\ lock_owner = "none"
    /\ g_ble_started = FALSE
    /\ host = "off"
    /\ scanning = FALSE
    /\ ipc = "idle" /\ ev = NoEv /\ ex = adv_extract_init /\ idx = -1
    /\ was_merged = FALSE /\ merged_log = FALSE
    /\ qpc = "idle" /\ req = NoReq /\ found = -1 /\ snap = ZeroDevice
    /\ reply = NoReply
    /\ pre_valid = FALSE /\ hist = {} /\ n_ingests = 0 /\ ever_merged = FALSE

Init ==
    /\ InitDriver
    /\ adv_pc = "idle" /\ adv_data = <<>> /\ adv_data_len = 0 /\ adv_st = adv_run_init

\* A call adv_extract(data, data_len, &out) on its own: data_len bytes of data
\* belong to the buffer, the bytes after them do not.
InitParse ==
    /\ InitDriver
    /\ adv_pc = "call" /\ adv_st = adv_run_init
    /\ \E b \in ParseBufs, c \in 0..MaxCut :
         /\ Len(b) - c \in 0..(UINT8_VALUES - 1)
         /\ adv_data = b \o Beyond
         /\ adv_data_len = Len(b) - c

AdvExtractCall ==
    /\ adv_pc = "call"
    /\ adv_st' = adv_run(adv_data, adv_data_len)
    /\ adv_pc' = "done"
    /\ UNCHANGED <<registry, lockv, radio, ingv, qryv, ghost, adv_data, adv_data_len>>

\* ---------------------------------------------------------- radio stack

\* ble_gap_disc: a discovery request is accepted once the host has synced.
start_scan(h, sc) == IF h = "synced" THEN TRUE ELSE sc

\* ble_gap_disc_cancel.
stop_scan(sc) == FALSE

\* ble_hs_cfg.sync_cb, called by the host task once the stack is up.
on_sync ==
    /\ host = "running"
    /\ host' = "synced"
    /\ scanning' = start_scan("synced", scanning)
    /\ UNCHANGED <<registry, lockv, g_ble_started, ingv, qryv, ghost>>
    /\ UNCHANGED parsev

\* ------------------------------------------------ gap_event_cb (host task)

\* The valid-merged test of lines 298 and 207.
merged_test(d) == d.have_mfg /\ d.have_svc /\ is_switchbot_mfg(d.mfg, d.mfg_len)

\* Mutant of store_rssi: only the first sighting sets the rssi.
store_rssi_first(d, rssi) == IF d.rssi = 0 THEN [d EXCEPT !.rssi = rssi] ELSE d

\* Line 300.
store_rssi(d, rssi) == [d EXCEPT !.rssi = rssi]

\* Mutant of store_mfg: a new manufacturer payload discards the service payload.
store_mfg_resets_svc(d, data, e) ==
    IF e.has_mfg /\ e.mfg_len <= MAX_BLE_DATA
      THEN [d EXCEPT !.have_mfg = TRUE, !.mfg_len = e.mfg_len,
                     !.mfg = MemCpy(d.mfg, Slice(data, e.mfg, e.mfg_len), e.mfg_len),
                     !.have_svc = FALSE, !.svc_len = 0]
      ELSE d

\* Lines 302-306.
store_mfg(d, data, e) ==
    IF e.has_mfg /\ e.mfg_len <= MAX_BLE_DATA
      THEN [d EXCEPT !.have_mfg = TRUE, !.mfg_len = e.mfg_len,
                     !.mfg = MemCpy(d.mfg, Slice(data, e.mfg, e.mfg_len), e.mfg_len)]
      ELSE d

\* Mutant of store_svc: the service payload is stored whatever its length.
store_svc_uncapped(d, data, e) ==
    IF e.has_svc
      THEN [d EXCEPT !.have_svc = TRUE, !.svc_len = e.svc_len,
                     !.svc = MemCpy(d.svc, Slice(data, e.svc, e.svc_len), e.svc_len)]
      ELSE d

\* Lines 307-311.
store_svc(d, data, e) ==
    IF e.has_svc /\ e.svc_len <= MAX_BLE_DATA
      THEN [d EXCEPT !.have_svc = TRUE, !.svc_len = e.svc_len,
                     !.svc = MemCpy(d.svc, Slice(data, e.svc, e.svc_len), e.svc_len)]
      ELSE d

\* Mutant of log_merged: logged whenever the record is merged.
log_merged_level(was, now) == now

\* Lines 316-324: whether the "MERGED" line is logged.
log_merged(was, now) == ~was /\ now

\* The valid merged reading of the data model: both payloads present and the
\* manufacturer payload starts with the company id 0x69, 0x09.
ValidMerged(d) ==
    /\ d.have_mfg /\ d.have_svc
    /\ d.mfg_len >= 2 /\ d.mfg[1] = 105 /\ d.mfg[2] = 9

\* What a reply shows of a record: rssi and the two payloads.
Observed(d) ==
    [addr |-> d.addr, rssi |-> d.rssi,
     mfg |-> SubSeq(d.mfg, 1, d.mfg_len), svc |-> SubSeq(d.svc, 1, d.svc_len)]

HasSlot(addr) == \E i \in Slots : g_devices[i].in_use /\ g_devices[i].addr = addr

Known(n) == HasSlot(Addr(n))

\* Senders are interchangeable (addresses are only compared for equality), so
\* a sender not seen before is taken to be the lowest-numbered unseen one.
NextFresh(senders) ==
    IF \A n \in senders : Known(n) THEN 0
    ELSE MinOf({n \in senders : ~Known(n)})

\* BLE_GAP_EVENT_DISC arrives: lines 266-288. again: the senders that send
\* more than once; budget < 0: no budget.
DiscEvent(senders, again, rssis, bufs, budget) ==
    /\ host = "synced" /\ scanning /\ ipc = "idle"
    /\ budget < 0 \/ n_ingests < budget
    /\ n_ingests' = IF budget < 0 THEN n_ingests ELSE n_ingests + 1
    /\ \E n \in senders, r \in rssis, b \in bufs :
         /\ (Known(n) /\ n \in again) \/ n = NextFresh(senders)
         /\ ev' = [addr |-> Addr(n), rssi |-> r, data |-> b]
         /\ ex' = adv_extract(b, Len(b))
         /\ ipc' = IF ~ex'.has_mfg /\ ~ex'.has_svc THEN "dropped" ELSE "take"
    /\ UNCHANGED <<registry, lockv, radio, idx, was_merged, merged_log, qryv,
                   pre_valid, hist, ever_merged>>
    /\ UNCHANGED parsev

\* Line 284: return 0 for an advertisement with neither field.
GapDropped ==
    /\ ipc = "dropped"
    /\ ipc' = "idle" /\ ev' = NoEv /\ ex' = adv_extract_init
    /\ UNCHANGED <<registry, lockv, radio, idx, was_merged, merged_log, qryv, ghost>>
    /\ UNCHANGED parsev

\* Lines 290-292.
GapTake ==
    /\ ipc = "take"
    /\ IF g_lock # "NULL"
         THEN lock_owner = "none" /\ lock_owner' = "host"
         ELSE UNCHANGED lock_owner
    /\ ipc' = "find"
    /\ UNCHANGED <<registry, g_lock, radio, ev, ex, idx, was_merged, merged_log,
                   qryv, ghost>>
    /\ UNCHANGED parsev

\* Lines 294-295.
GapFind ==
    /\ ipc = "find"
    /\ LET r == cache_find_or_alloc(g_devices, ev.addr) IN
         /\ idx' = r.idx
         /\ g_devices' = r.devs
         /\ ipc' = IF r.idx >= 0 THEN "rssi" ELSE "give"
         /\ pre_valid' = (r.idx >= 0 /\ ValidMerged(r.devs[r.idx]))
    /\ UNCHANGED <<g_latest_index, lockv, radio, ev, ex, was_merged, merged_log,
                   qryv, hist, n_ingests, ever_merged>>
    /\ UNCHANGED parsev

\* Lines 298-300.
GapRssi ==
    /\ ipc = "rssi"
    /\ was_merged' = merged_test(g_devices[idx])
    /\ g_devices' = [g_devices EXCEPT ![idx] = store_rssi(@, ev.rssi)]
    /\ ipc' = "mfg"
    /\ UNCHANGED <<g_latest_index, lockv, radio, ev, ex, idx, merged_log, qryv, ghost>>
    /\ UNCHANGED parsev

GapMfg ==
    /\ ipc = "mfg"
    /\ g_devices' = [g_devices EXCEPT ![idx] = store_mfg(@, ev.data, ex)]
    /\ ipc' = "svc"
    /\ UNCHANGED <<g_latest_index, lockv, radio, ev, ex, idx, was_merged, merged_log,
                   qryv, ghost>>
    /\ UNCHANGED parsev

GapSvc ==
    /\ ipc = "svc"
    /\ g_devices' = [g_devices EXCEPT ![idx] = store_svc(@, ev.data, ex)]
    /\ ipc' = "mark"
    /\ UNCHANGED <<g_latest_index, lockv, radio, ev, ex, idx, was_merged, merged_log,
                   qryv, ghost>>
    /\ UNCHANGED parsev

\* Lines 313-324: merged_log is the "MERGED" log line of this callback.
GapMark ==
    /\ ipc = "mark"
    /\ LET r == maybe_mark_latest(g_devices, g_latest_index, idx) IN
         /\ g_devices' = r.devs
         /\ g_latest_index' = r.latest
         /\ merged_log' = log_merged(was_merged, r.merged)
         /\ ever_merged' = (ever_merged \/ ValidMerged(r.devs[idx]))
    /\ ipc' = "give"
    /\ UNCHANGED <<lockv, radio, ev, ex, idx, was_merged, qryv, pre_valid, hist,
                   n_ingests>>
    /\ UNCHANGED parsev

\* Lines 327-331. track: the value left in the record is added to hist.
GapGive(track) ==
    /\ ipc = "give"
    /\ lock_owner' = IF g_lock # "NULL" THEN "none" ELSE lock_owner
    /\ ipc' = "idle" /\ ev' = NoEv /\ ex' = adv_extract_init /\ idx' = -1
    /\ was_merged' = FALSE /\ merged_log' = FALSE
    /\ pre_valid' = FALSE
    /\ hist' = IF track /\ idx >= 0 THEN hist \cup {Observed(g_devices[idx])} ELSE hist
    /\ UNCHANGED <<registry, g_lock, radio, qryv, n_ingests, ever_merged>>
    /\ UNCHANGED parsev

\* BLE_GAP_EVENT_DISC_COMPLETE: the procedure ended and is started again.
GapDiscComplete ==
    /\ host = "synced" /\ scanning /\ ipc = "idle"
    /\ scanning' = start_scan(host, FALSE)
    /\ UNCHANGED <<registry, lockv, g_ble_started, host, ingv, qryv, ghost>>
    /\ UNCHANGED parsev

\* ---------------------------------------------- handle_call (port handler)

ERR_NOT_BINARY == 16
ERR_EMPTY == 17
ERR_UNKNOWN_OPCODE == 18
ERR_RADIO_INIT == 48
ERR_STOP_NOT_STARTED == 50
ERR_NOT_STARTED == 64
ERR_NO_DATA == 65
ERR_MALFORMED == 66
ERR_NOT_FOUND == 67

PONG == <<80, 79, 78, 71>>
OK1  == <<1>>

Opcode(rq) == rq.data[1]

Opcodes == {OPCODE_PING, OPCODE_ECHO, OPCODE_BLE_START, OPCODE_BLE_STOP,
            OPCODE_LATEST, OPCODE_LATEST_FOR}

\* Line 467.
Wanted(rq) == (rq.data[2] * 256 + rq.data[3]) % 65536

\* A request answered without touching the registry lock.
Answer(rq, out) ==
    /\ req' = rq /\ reply' = out /\ qpc' = "reply"
    /\ UNCHANGED <<found, snap>>

\* Lines 375-384 and 506-507.
CallRejected(reqs) ==
    /\ qpc = "idle"
    /\ \E rq \in reqs :
         \/ ~rq.is_binary /\ Answer(rq, make_error(ERR_NOT_BINARY))
         \/ rq.is_binary /\ Len(rq.data) < 1 /\ Answer(rq, make_error(ERR_EMPTY))
         \/ /\ rq.is_binary /\ Len(rq.data) >= 1 /\ Opcode(rq) \notin Opcodes
            /\ Answer(rq, make_error(ERR_UNKNOWN_OPCODE))
    /\ UNCHANGED <<registry, lockv, radio, ingv, ghost>>
    /\ UNCHANGED parsev

\* Lines 389-395.
CallPingEcho(reqs) ==
    /\ qpc = "idle"
    /\ \E rq \in reqs :
         /\ rq.is_binary /\ Len(rq.data) >= 1
         /\ \/ Opcode(rq) = OPCODE_PING /\ Answer(rq, make_ok_with_payload(PONG))
            \/ /\ Opcode(rq) = OPCODE_ECHO
               /\ Answer(rq, make_ok_with_payload(SubSeq(rq.data, 2, Len(rq.data))))
    /\ UNCHANGED <<registry, lockv, radio, ingv, ghost>>
    /\ UNCHANGED parsev

\* Lines 397-425.
CallStart(reqs) ==
    /\ qpc = "idle"
    /\ \E rq \in reqs :
         /\ rq.is_binary /\ Len(rq.data) >= 1 /\ Opcode(rq) = OPCODE_BLE_START
         /\ IF ~g_ble_started
              THEN \E e1 \in NvsResults, e2 \in NvsResults, m \in MutexResults :
                     LET err == IF e1 \in {"ESP_ERR_NVS_NO_FREE_PAGES",
                                           "ESP_ERR_NVS_NEW_VERSION_FOUND"}
                                  THEN e2 ELSE e1
                     IN IF err # "ESP_OK"
                          THEN /\ Answer(rq, make_error(ERR_RADIO_INIT))
                               /\ UNCHANGED <<lockv, radio>>
                          ELSE /\ g_lock' = m
                               /\ g_ble_started' = TRUE
                               /\ host' = "running"
                               /\ Answer(rq, make_ok_with_payload(OK1))
                               /\ UNCHANGED <<lock_owner, scanning>>
              ELSE /\ scanning' = start_scan(host, scanning)
                   /\ Answer(rq, make_ok_with_payload(OK1))
                   /\ UNCHANGED <<lockv, g_ble_started, host>>
    /\ UNCHANGED <<registry, ingv, ghost>>
    /\ UNCHANGED parsev

\* Mutant of CallStop: stopping also clears the started state.
CallStop_teardown(reqs) ==
    /\ qpc = "idle"
    /\ \E rq \in reqs :
         /\ rq.is_binary /\ Len(rq.data) >= 1 /\ rq.data[1] = OPCODE_BLE_STOP
         /\ IF ~g_ble_started
              THEN /\ req' = rq /\ reply' = make_error(50) /\ qpc' = "reply"
                   /\ UNCHANGED <<scanning, g_ble_started>>
              ELSE /\ scanning' = FALSE /\ g_ble_started' = FALSE
                   /\ req' = rq /\ reply' = make_ok_with_payload(<<1>>)
                   /\ qpc' = "reply"
    /\ UNCHANGED <<registry, lockv, host, ingv, found, snap, ghost>>
    /\ UNCHANGED parsev

\* Lines 427-434.
CallStop(reqs) ==
    /\ qpc = "idle"
    /\ \E rq \in reqs :
         /\ rq.is_binary /\ Len(rq.data) >= 1 /\ Opcode(rq) = OPCODE_BLE_STOP
         /\ IF ~g_ble_started
              THEN /\ Answer(rq, make_error(ERR_STOP_NOT_STARTED))
                   /\ UNCHANGED scanning
              ELSE /\ scanning' = stop_scan(scanning)
                   /\ Answer(rq, make_ok_with_payload(OK1))
    /\ UNCHANGED <<registry, lockv, g_ble_started, host, ingv, ghost>>
    /\ UNCHANGED parsev

\* Mutant of CallQuery: LATEST_FOR takes a body of exactly 2 bytes.
CallQuery_exact(reqs) ==
    /\ qpc = "idle"
    /\ \E rq \in reqs :
         /\ rq.is_binary /\ Len(rq.data) >= 1
         /\ rq.data[1] \in {OPCODE_LATEST, OPCODE_LATEST_FOR}
         /\ IF ~g_ble_started
              THEN /\ req' = rq /\ reply' = make_error(64) /\ qpc' = "reply"
                   /\ UNCHANGED <<found, snap>>
              ELSE IF rq.data[1] = OPCODE_LATEST_FOR /\ Len(rq.data) # 1 + 2
                THEN /\ req' = rq /\ reply' = make_error(66) /\ qpc' = "reply"
                     /\ UNCHANGED <<found, snap>>
                ELSE /\ req' = rq /\ qpc' = "take"
                     /\ UNCHANGED <<found, snap, reply>>
    /\ UNCHANGED <<registry, lockv, radio, ingv, ghost>>
    /\ UNCHANGED parsev

\* Lines 436-439 and 459-467: the checks made before the lock is taken.
CallQuery(reqs) ==
    /\ qpc = "idle"
    /\ \E rq \in reqs :
         /\ rq.is_binary /\ Len(rq.data) >= 1
         /\ Opcode(rq) \in {OPCODE_LATEST, OPCODE_LATEST_FOR}
         /\ IF ~g_ble_started
              THEN Answer(rq, make_error(ERR_NOT_STARTED))
              ELSE IF Opcode(rq) = OPCODE_LATEST_FOR /\ Len(rq.data) < 1 + 2
                THEN Answer(rq, make_error(ERR_MALFORMED))
                ELSE /\ req' = rq /\ qpc' = "take"
                     /\ UNCHANGED <<found, snap, reply>>
    /\ UNCHANGED <<registry, lockv, radio, ingv, ghost>>
    /\ UNCHANGED parsev

\* Lines 441-443 and 469-471.
QueryTake ==
    /\ qpc = "take"
    /\ IF g_lock # "NULL"
         THEN lock_owner = "none" /\ lock_owner' = "port"
         ELSE UNCHANGED lock_owner
    /\ qpc' = IF Opcode(req) = OPCODE_LATEST THEN "read" ELSE "scan"
    /\ UNCHANGED <<registry, g_lock, radio, ingv, req, found, snap, reply, ghost>>
    /\ UNCHANGED parsev

\* Mutant of QueryReadLatest: a latest record that is no longer a valid merged
\* reading counts as none.
QueryReadLatest_revalidate ==
    /\ qpc = "read"
    /\ found' = IF g_latest_index >= 0 /\ merged_test(g_devices[g_latest_index])
                  THEN g_latest_index ELSE -1
    /\ qpc' = IF found' < 0 THEN "give" ELSE "copy"
    /\ UNCHANGED <<registry, lockv, radio, ingv, req, snap, reply, ghost>>
    /\ UNCHANGED parsev

\* Lines 444-445.
QueryReadLatest ==
    /\ qpc = "read"
    /\ found' = g_latest_index
    /\ qpc' = IF g_latest_index < 0 THEN "give" ELSE "copy"
    /\ UNCHANGED <<registry, lockv, radio, ingv, req, snap, reply, ghost>>
    /\ UNCHANGED parsev

\* Lines 473-489: returns [devs, found].
RECURSIVE latest_for_scan(_, _, _)
latest_for_scan(devs, i, wanted) ==
    IF ~(i < MAX_DEVICES) THEN [devs |-> devs, found |-> -1]
    ELSE IF ~devs[i].in_use THEN latest_for_scan(devs, i + 1, wanted)
    ELSE IF ~devs[i].have_mfg \/ ~devs[i].have_svc
      THEN latest_for_scan(devs, i + 1, wanted)
    ELSE IF ~is_switchbot_mfg(devs[i].mfg, devs[i].mfg_len)
      THEN latest_for_scan(devs, i + 1, wanted)
    ELSE LET d  == update_device_id(devs[i])
             ds == [devs EXCEPT ![i] = d]
         IN IF d.have_device_id /\ d.device_id = wanted
              THEN [devs |-> ds, found |-> i]
              ELSE latest_for_scan(ds, i + 1, wanted)

QueryScan ==
    /\ qpc = "scan"
    /\ LET r == latest_for_scan(g_devices, 0, Wanted(req)) IN
         /\ g_devices' = r.devs
         /\ found' = r.found
         /\ qpc' = IF r.found < 0 THEN "give" ELSE "copy"
    /\ UNCHANGED <<g_latest_index, lockv, radio, ingv, req, snap, reply, ghost>>
    /\ UNCHANGED parsev

\* Lines 451 and 498: device_cache_t snap = g_devices[...].
QueryCopy ==
    /\ qpc = "copy"
    /\ snap' = g_devices[found]
    /\ qpc' = "give"
    /\ UNCHANGED <<registry, lockv, radio, ingv, req, found, reply, ghost>>
    /\ UNCHANGED parsev

\* Mutant of QueryGive: the error paths return without giving the lock.
QueryGive_leak ==
    /\ qpc = "give"
    /\ lock_owner' = IF g_lock # "NULL" /\ found >= 0 THEN "none" ELSE lock_owner
    /\ reply' = IF found < 0
                  THEN make_error(IF req.data[1] = OPCODE_LATEST THEN 65 ELSE 67)
                  ELSE reply_latest(snap)
    /\ qpc' = "reply"
    /\ UNCHANGED <<registry, g_lock, radio, ingv, req, found, snap, ghost>>
    /\ UNCHANGED parsev

\* Lines 446-456 and 491-503: release the lock and build the reply.
QueryGive ==
    /\ qpc = "give"
    /\ lock_owner' = IF g_lock # "NULL" THEN "none" ELSE lock_owner
    /\ reply' = IF found < 0
                  THEN make_error(IF Opcode(req) = OPCODE_LATEST
                                    THEN ERR_NO_DATA ELSE ERR_NOT_FOUND)
                  ELSE reply_latest(snap)
    /\ qpc' = "reply"
    /\ UNCHANGED <<registry, g_lock, radio, ingv, req, found, snap, ghost>>
    /\ UNCHANGED parsev

\* Lines 532-535: port_send_reply, and the handler returns.
SendReply ==
    /\ qpc = "reply"
    /\ qpc' = "idle" /\ req' = NoReq /\ found' = -1 /\ snap' = ZeroDevice
    /\ reply' = NoReply
    /\ UNCHANGED <<registry, lockv, radio, ingv, ghost>>
    /\ UNCHANGED parsev

\* ------------------------------------------------------------ specification

Gap(senders, again, rssis, bufs, budget) ==
    \/ on_sync
    \/ DiscEvent(senders, again, rssis, bufs, budget)
    \/ GapDropped
    \/ GapTake
    \/ GapFind
    \/ GapRssi
    \/ GapMfg
    \/ GapSvc
    \/ GapMark
    \/ GapGive(budget >= 0)
    \/ GapDiscComplete

Port(reqs) ==
    \/ CallRejected(reqs)
    \/ CallPingEcho(reqs)
    \/ CallStart(reqs)
    \/ CallStop(reqs)
    \/ CallQuery(reqs)
    \/ QueryTake
    \/ QueryReadLatest
    \/ QueryScan
    \/ QueryCopy
    \/ QueryGive
    \/ SendReply

\* Several senders.
Next == Gap(Senders, Senders, Rssis, Bufs, -1) \/ Port(Reqs)
Spec == Init /\ [][Next]_vars

\* One sender, every kind of payload.
NextData == Gap(DataSenders, DataSenders, DataRssis, DataBufs, -1) \/ Port(Reqs)
SpecData == Init /\ [][NextData]_vars

\* More senders than slots.
NextCap == Gap(CapSenders, CapAgain, Rssis, CapBufs, -1) \/ Port(Reqs)
SpecCap == Init /\ [][NextCap]_vars

\* A budget of events, with the history of the values they leave.
NextTear == Gap(DataSenders, DataSenders, TearRssis, TearBufs, MaxEvents) \/ Port(Reqs)
SpecTear == Init /\ [][NextTear]_vars

\* Both tasks keep running, and a task waiting in xSemaphoreTake gets the
\* mutex if it is given again and again (a fair lock).
Fairness ==
    /\ WF_vars(GapFind) /\ WF_vars(GapRssi) /\ WF_vars(GapMfg) /\ WF_vars(GapSvc)
    /\ WF_vars(GapMark) /\ WF_vars(GapGive(FALSE))
    /\ SF_vars(QueryTake)
    /\ WF_vars(QueryReadLatest) /\ WF_vars(QueryScan) /\ WF_vars(QueryCopy)
    /\ WF_vars(QueryGive) /\ WF_vars(SendReply)

\* One sender, under fair scheduling.
NextLive == Gap(DataSenders, DataSenders, Rssis, LiveBufs, -1) \/ Port(Reqs)
SpecLive == Init /\ [][NextLive]_vars /\ Fairness

\* One sender, fields over the cap.
NextOver == Gap(DataSenders, DataSenders, Rssis, OverBufs, -1) \/ Port(Reqs)
SpecOver == Init /\ [][NextOver]_vars

\* adv_extract on its own.
NextParse == AdvExtractCall
SpecParse == InitParse /\ [][NextParse]_vars

\* ------------------------------------------------------------------ claims

\* The opcode of the request being handled, -1 when it has none.
ReqOp == IF req.is_binary /\ Len(req.data) >= 1 THEN req.data[1] ELSE -1

\* The steps of gap_event_cb between taking and giving the lock.
InGap == ipc \in {"find", "rssi", "mfg", "svc", "mark", "give"}

\* The steps of handle_call between taking and giving the lock.
InQuery == qpc \in {"read", "scan", "copy", "give"}

\* gap_event_cb is part-way through the update of a record.
PartWay == ipc \in {"rssi", "mfg", "svc", "mark"}

Full == \A i \in Slots : g_devices[i].in_use

SlotOf(addr) == CHOOSE i \in Slots : g_devices[i].in_use /\ g_devices[i].addr = addr

C2_RepliedRecordIsValidMerged ==
    (g_lock = "mutex" /\ qpc = "give" /\ found >= 0)
      => /\ ValidMerged(snap)
         /\ ValidMerged(g_devices[found])

\* C3: between two ingests, have_device_id implies a manufacturer payload of
\* 8 bytes or more whose bytes 6..7 are the device_id (stated where the lock
\* exists).
C3_DeviceIdIsCurrent ==
    (g_lock = "mutex" /\ ~PartWay) =>
      \A i \in Slots :
        LET d == g_devices[i] IN
          /\ d.have_device_id =>
               /\ d.mfg_len >= 8
               /\ d.device_id = d.mfg[7] * 256 + d.mfg[8]
          /\ d.mfg_len < 8 => ~d.have_device_id

\* The slots LATEST_FOR(id) is to find: valid merged, 8 bytes or more of
\* manufacturer payload, bytes 6..7 equal to id.
Matching(id) ==
    {i \in Slots :
       /\ g_devices[i].in_use /\ ValidMerged(g_devices[i])
       /\ g_devices[i].mfg_len >= 8
       /\ g_devices[i].mfg[7] * 256 + g_devices[i].mfg[8] = id}

\* C4: LATEST_FOR with a 2-byte id replies the snapshot of the lowest matching
\* slot if there is one, and NotFound otherwise (stated where the lock
\* exists, at the step that releases it and builds the reply).
C4_LatestForFindsCurrentId ==
    [][(/\ g_lock = "mutex" /\ qpc = "give" /\ qpc' = "reply"
        /\ ReqOp = OPCODE_LATEST_FOR /\ Len(req.data) = 3)
         => LET M == Matching(req.data[2] * 256 + req.data[3]) IN
              IF M = {} THEN reply' = make_error(ERR_NOT_FOUND)
              ELSE reply' = reply_latest(g_devices[MinOf(M)])]_vars

\* C5 as stated: when the callback returns from an event of an address that
\* has a record, the record's rssi is the event's (stated where the lock
\* exists).
C5_RssiOfEveryEvent ==
    [][(/\ g_lock = "mutex" /\ ipc \in {"dropped", "give"} /\ ipc' = "idle"
        /\ HasSlot(ev.addr))
         => g_devices'[SlotOf(ev.addr)].rssi = ev.rssi]_vars

\* C5 as amended: an event that carries a manufacturer or a service field,
\* over the cap or not, leaves its rssi in the record of its address; an event
\* with neither field returns without touching the registry.
C5_RssiOfEventWithField ==
    [][/\ (ipc = "give" /\ ipc' = "idle" /\ HasSlot(ev.addr))
            => /\ ex.has_mfg \/ ex.has_svc
               /\ g_devices'[SlotOf(ev.addr)].rssi = ev.rssi
       /\ (ipc = "dropped" /\ ipc' = "idle")
            => /\ ~ex.has_mfg /\ ~ex.has_svc
               /\ UNCHANGED registry]_vars

\* An over-cap manufacturer field from the sender of a merged record whose
\* rssi was another: the rssi is the event's, the payload is the old one.
C5_Witness ==
    /\ ipc = "give" /\ idx >= 0 /\ pre_valid
    /\ ex.has_mfg /\ ex.mfg_len > MAX_BLE_DATA
    /\ ev.rssi = -58 /\ g_devices[idx].rssi = -58
    /\ g_devices[idx].mfg_len = 8
    /\ qpc = "reply" /\ found = idx /\ snap.rssi = -60

\* C6: with every slot taken, the ingest of an address that has no slot
\* changes no slot and not g_latest_index, and returns with the lock released;
\* a slot in use stays in use and keeps its address.
C6_FullTableDropsNewAddress ==
    [][/\ (ipc = "find" /\ ipc' # "find" /\ Full /\ ~HasSlot(ev.addr))
            => /\ UNCHANGED registry
               /\ idx' = -1 /\ ipc' = "give"
       /\ (ipc = "give" /\ ipc' = "idle") => lock_owner' # "host"
       /\ \A i \in Slots :
            g_devices[i].in_use
              => /\ g_devices'[i].in_use
                 /\ g_devices'[i].addr = g_devices[i].addr]_vars

\* The event of a thirteenth sender has been dropped by a full table.
C6_Witness ==
    /\ Full /\ ipc = "give" /\ idx = -1
    /\ ev.addr = Addr(MAX_DEVICES + 1) /\ ~HasSlot(ev.addr)
    /\ g_latest_index = MAX_DEVICES - 1

\* C7: an ingest logs the completed merge exactly when the record was not a
\* valid merged reading before the update and is one after it.
C7_LoggedOnEdgeOnly ==
    [][(ipc = "mark" /\ ipc' = "give")
         => (merged_log' <=> (~pre_valid /\ ValidMerged(g_devices'[idx])))]_vars

\* The second ingest of a sender: service data only, completing the merge.
C7_Witness ==
    /\ ipc = "give" /\ merged_log
    /\ ex.has_svc /\ ~ex.has_mfg
    /\ g_devices[idx].have_mfg /\ ~pre_valid

\* C8: once started, gap_event_cb and the LATEST / LATEST_FOR handlers are
\* between take and give only while holding the lock, and never both.
C8_RegistryAccessHoldsLock ==
    g_ble_started =>
      /\ InGap => lock_owner = "host"
      /\ InQuery => lock_owner = "port"
      /\ ~(InGap /\ InQuery)

\* C8 where xSemaphoreCreateMutex returned a mutex.
C8_LockedCase == g_lock = "mutex" => C8_RegistryAccessHoldsLock

\* What the ingest now under way, if it is one for slot i, leaves in the slot.
LeftBy(i) ==
    IF InGap /\ idx = i
      THEN Observed(store_svc(store_mfg(store_rssi(g_devices[i], ev.rssi),
                                        ev.data, ex), ev.data, ex))
      ELSE Observed(g_devices[i])

\* C9: the rssi and payloads of every snapshot are those a whole ingest left
\* in the record: an ingest that has returned, or the one now under way.
C9_SnapshotIsWholeIngest ==
    [][(qpc = "copy" /\ qpc' = "give")
         => Observed(snap') \in (hist \cup {LeftBy(found)})]_vars

\* C9 where xSemaphoreCreateMutex returned a mutex.
C9_LockedCase ==
    [][(g_lock = "mutex" /\ qpc = "copy" /\ qpc' = "give")
         => Observed(snap') \in (hist \cup {LeftBy(found)})]_vars

\* C10: before a RADIO_START has succeeded, RADIO_STOP, LATEST and LATEST_FOR
\* reply NotStarted and change neither registry, lock nor radio state; the
\* started state is never cleared, and once it is set none of them replies
\* NotStarted.
C10_NotStartedOnlyBeforeStart ==
    [][/\ (/\ qpc = "idle" /\ qpc' # "idle" /\ ~g_ble_started
           /\ req'.is_binary /\ Len(req'.data) >= 1
           /\ req'.data[1] \in {OPCODE_BLE_STOP, OPCODE_LATEST, OPCODE_LATEST_FOR})
            => /\ qpc' = "reply"
               /\ reply' = make_error(IF req'.data[1] = OPCODE_BLE_STOP
                                        THEN ERR_STOP_NOT_STARTED
                                        ELSE ERR_NOT_STARTED)
               /\ UNCHANGED <<registry, lockv, radio>>
       /\ g_ble_started => g_ble_started'
       /\ (g_ble_started /\ qpc' = "reply" /\ qpc # "reply")
            => reply' \notin {make_error(ERR_STOP_NOT_STARTED),
                              make_error(ERR_NOT_STARTED)}]_vars

\* After RADIO_START and RADIO_STOP, LATEST is answered with data.
C10_Witness ==
    /\ g_ble_started /\ host = "synced" /\ ~scanning
    /\ qpc = "reply" /\ ReqOp = OPCODE_LATEST /\ reply[1] = 0

\* C11: g_latest_index is none exactly until an ingest has left a valid merged
\* reading; LATEST reads it as none, and replies NoDataYet, exactly then; once
\* set it is the index of a slot in use and never none again.
C11_NoDataUntilFirstMerge ==
    /\ [](g_latest_index >= 0 <=> ever_merged)
    /\ [](g_latest_index >= 0
            => g_latest_index \in Slots /\ g_devices[g_latest_index].in_use)
    /\ [][/\ g_latest_index >= 0 => g_latest_index' >= 0
          /\ (qpc = "read" /\ qpc' # "read") => (found' < 0 <=> ~ever_merged)
          /\ (qpc = "give" /\ qpc' = "reply" /\ ReqOp = OPCODE_LATEST)
               => (reply' = make_error(ERR_NO_DATA) <=> found < 0)]_vars

\* LATEST is answered with the latest record, which another company's
\* manufacturer payload has since made no valid merged reading.
C11_Witness ==
    /\ qpc = "reply" /\ ReqOp = OPCODE_LATEST /\ reply[1] = 0
    /\ ever_merged /\ found = g_latest_index
    /\ ~ValidMerged(g_devices[g_latest_index])
    /\ ipc = "idle"

\* A step in which handle_call answers a RADIO_START.
StartStep ==
    /\ qpc = "idle" /\ qpc' = "reply"
    /\ req'.is_binary /\ Len(req'.data) >= 1 /\ req'.data[1] = OPCODE_BLE_START

\* C12: a RADIO_START in the started state changes neither lock, host task
\* nor started state and replies success; one before it either fails, replies
\* RadioInitFailed and changes nothing, or brings up lock and host task, sets
\* the started state and replies success.
C12_BringUpOnceOrFail ==
    [][StartStep =>
         IF g_ble_started
           THEN /\ reply' = make_ok_with_payload(OK1)
                /\ UNCHANGED <<registry, lockv, g_ble_started, host>>
           ELSE \/ /\ reply' = make_error(ERR_RADIO_INIT)
                   /\ UNCHANGED <<registry, lockv, radio>>
                \/ /\ reply' = make_ok_with_payload(OK1)
                   /\ g_ble_started' /\ host' = "running" /\ g_lock' = "mutex"
                   /\ UNCHANGED registry]_vars

\* C12 but for the lock: the same, whatever xSemaphoreCreateMutex returned.
C12_ExceptLock ==
    [][StartStep =>
         IF g_ble_started
           THEN /\ reply' = make_ok_with_payload(OK1)
                /\ UNCHANGED <<registry, lockv, g_ble_started, host>>
           ELSE \/ /\ reply' = make_error(ERR_RADIO_INIT)
                   /\ UNCHANGED <<registry, lockv, radio>>
                \/ /\ reply' = make_ok_with_payload(OK1)
                   /\ g_ble_started' /\ host' = "running"
                   /\ UNCHANGED registry]_vars

\* A step in which handle_call, started, receives a LATEST_FOR.
LatestForStep ==
    /\ qpc = "idle" /\ qpc' # "idle" /\ g_ble_started
    /\ req'.is_binary /\ Len(req'.data) >= 1 /\ req'.data[1] = OPCODE_LATEST_FOR

\* C13 as stated: a LATEST_FOR whose body is not exactly 2 bytes is answered
\* MalformedRequest with the registry untouched; one whose body is 2 bytes
\* goes on to the lookup and is never answered MalformedRequest.
C13_MalformedUnlessTwoBytes ==
    [][/\ LatestForStep =>
            IF Len(req'.data) - 1 = 2
              THEN qpc' = "take"
              ELSE /\ qpc' = "reply" /\ reply' = make_error(ERR_MALFORMED)
                   /\ UNCHANGED <<registry, lockv>>
       /\ (qpc = "give" /\ qpc' = "reply" /\ ReqOp = OPCODE_LATEST_FOR)
            => reply' # make_error(ERR_MALFORMED)]_vars

\* The slots the lookup of id can return: in use, both payloads, company id,
\* and a device_id, as held after the lookup, equal to id.
Holding(id) ==
    {i \in Slots :
       /\ g_devices'[i].in_use /\ ValidMerged(g_devices'[i])
       /\ g_devices'[i].have_device_id /\ g_devices'[i].device_id = id}

\* C13 as amended: a LATEST_FOR whose body is shorter than 2 bytes is answered
\* MalformedRequest with the registry untouched; one whose body is 2 bytes or
\* longer goes on to the lookup of the id in its first 2 bytes, whatever
\* follows them, and is never answered MalformedRequest.
C13_MalformedIfShorter ==
    [][/\ LatestForStep =>
            IF Len(req'.data) - 1 >= 2
              THEN qpc' = "take"
              ELSE /\ qpc' = "reply" /\ reply' = make_error(ERR_MALFORMED)
                   /\ UNCHANGED <<registry, lockv>>
       /\ (qpc = "scan" /\ qpc' # "scan")
            => LET H == Holding(req.data[2] * 256 + req.data[3]) IN
                 found' = IF H = {} THEN -1 ELSE MinOf(H)
       /\ (qpc = "give" /\ qpc' = "reply" /\ ReqOp = OPCODE_LATEST_FOR)
            => reply' # make_error(ERR_MALFORMED)]_vars

\* A LATEST_FOR with a 3-byte body is answered with the record of its id.
C13_Witness ==
    /\ qpc = "reply" /\ ReqOp = OPCODE_LATEST_FOR /\ Len(req.data) = 4
    /\ reply[1] = 0 /\ found >= 0 /\ snap.device_id = 4660

\* The offsets of the AD structures that lie wholly in the first data_len
\* bytes, up to the first zero length byte or structure that does not.
RECURSIVE WellFormed(_, _, _)
WellFormed(data, data_len, i) ==
    IF i >= data_len THEN <<>>
    ELSE IF data[i + 1] = 0 \/ i + 1 + data[i + 1] > data_len THEN <<>>
    ELSE <<i>> \o WellFormed(data, data_len, i + 1 + data[i + 1])

\* Type and value of the structure at offset i.
TypeAt(data, i) == data[i + 2]
ValueAt(data, i) == [k \in 1..(data[i + 1] - 1) |-> data[i + 2 + k]]

MaxOf(S) == CHOOSE x \in S : \A y \in S : x >= y

W == WellFormed(adv_data, adv_data_len, 0)

\* The well-formed manufacturer structures of 2 value bytes or more, and the
\* well-formed service structures of the UUID 0x3D, 0xFD.
MfgAt == {k \in 1..Len(W) : /\ TypeAt(adv_data, W[k]) = 255
                            /\ Len(ValueAt(adv_data, W[k])) >= 2}
SvcAt == {k \in 1..Len(W) : /\ TypeAt(adv_data, W[k]) = 22
                            /\ Len(ValueAt(adv_data, W[k])) >= 2
                            /\ ValueAt(adv_data, W[k])[1] = 61
                            /\ ValueAt(adv_data, W[k])[2] = 253}

\* The offset at which the well-formed structures end.
WellFormedEnd == IF W = <<>> THEN 0 ELSE W[Len(W)] + 1 + adv_data[W[Len(W)] + 1]

\* C14: adv_extract ends, reads no byte at an index of data_len or more, and
\* every slice it returns is the value of a well-formed structure before the
\* first truncated or zero-length one, inside the buffer.
C14_ParserStaysInBuffer ==
    adv_pc = "done" =>
      LET out == adv_st.out IN
        /\ adv_st.iters <= adv_data_len
        /\ \A r \in adv_st.reads : 0 <= r /\ r < adv_data_len
        /\ out.has_mfg =>
             /\ out.mfg + out.mfg_len <= adv_data_len
             /\ \E k \in MfgAt : /\ out.mfg = W[k] + 2
                                 /\ out.mfg_len = adv_data[W[k] + 1] - 1
        /\ out.has_svc =>
             /\ out.svc + out.svc_len <= adv_data_len
             /\ \E k \in SvcAt : /\ out.svc = W[k] + 4
                                 /\ out.svc_len = adv_data[W[k] + 1] - 3

\* A 255-byte buffer whose last structure declares more bytes than are left,
\* after a manufacturer structure that was extracted.
C14_Witness ==
    /\ adv_pc = "done" /\ adv_data_len = UINT8_VALUES - 1
    /\ adv_st.out.has_mfg /\ Len(W) >= 2
    /\ WellFormedEnd < adv_data_len /\ adv_data[WellFormedEnd + 1] # 0

\* C15: the manufacturer payload is the value of the last well-formed
\* manufacturer structure of 2 bytes or more, the service payload the value
\* after the UUID of the last well-formed service structure of the UUID
\* 0x3D, 0xFD; each is absent when there is no such structure.
C15_ParserMatchesReference ==
    adv_pc = "done" =>
      LET out == adv_st.out IN
        /\ out.has_mfg <=> MfgAt # {}
        /\ out.has_mfg =>
             Slice(adv_data, out.mfg, out.mfg_len)
               = ValueAt(adv_data, W[MaxOf(MfgAt)])
        /\ ~out.has_mfg => out.mfg_len = 0
        /\ out.has_svc <=> SvcAt # {}
        /\ out.has_svc =>
             LET v == ValueAt(adv_data, W[MaxOf(SvcAt)]) IN
               Slice(adv_data, out.svc, out.svc_len) = SubSeq(v, 3, Len(v))
        /\ ~out.has_svc => out.svc_len = 0

\* Two manufacturer structures of different values and one of service data:
\* the second manufacturer value is returned, with the service payload.
C15_Witness ==
    /\ adv_pc = "done" /\ Len(W) = 3
    /\ Cardinality(MfgAt) = 2
    /\ ValueAt(adv_data, W[1]) # ValueAt(adv_data, W[2])
    /\ adv_st.out.has_svc /\ adv_st.out.svc_len = 1
    /\ Slice(adv_data, adv_st.out.mfg, adv_st.out.mfg_len)
         = ValueAt(adv_data, W[2])

\* The manufacturer fields and the service fields of a record.
MfgOf(d) == <<d.have_mfg, d.mfg_len, d.mfg>>
SvcOf(d) == <<d.have_svc, d.svc_len, d.svc>>

\* The steps of gap_event_cb that update the record it found.
Updating == ipc \in {"rssi", "mfg", "svc", "mark"}

\* C16: the stored lengths never exceed MAX_BLE_DATA, and no step of an
\* ingest whose manufacturer (service) field is longer changes the stored
\* manufacturer (service) payload, length or flag of its record.
C16_StoredLengthsCapped ==
    /\ [](\A i \in Slots : /\ g_devices[i].mfg_len <= MAX_BLE_DATA
                           /\ g_devices[i].svc_len <= MAX_BLE_DATA
                           /\ Len(g_devices[i].mfg) = MAX_BLE_DATA
                           /\ Len(g_devices[i].svc) = MAX_BLE_DATA)
    /\ [][/\ (Updating /\ ex.has_mfg /\ ex.mfg_len > MAX_BLE_DATA)
               => MfgOf(g_devices'[idx]) = MfgOf(g_devices[idx])
          /\ (Updating /\ ex.has_svc /\ ex.svc_len > MAX_BLE_DATA)
               => SvcOf(g_devices'[idx]) = SvcOf(g_devices[idx])]_vars

\* An ingest of 32 bytes of service data has left the 2 bytes of a merged
\* record in place.
C16_Witness ==
    /\ ipc = "give" /\ idx >= 0 /\ pre_valid
    /\ ex.has_svc /\ ex.svc_len > MAX_BLE_DATA
    /\ g_devices[idx].have_svc /\ g_devices[idx].svc_len = 2
    /\ SubSeq(g_devices[idx].svc, 1, 2) = <<170, 187>>

\* C17: no two slots in use hold the same address, and there are at most
\* MAX_DEVICES slots in use.
C17_OneSlotPerAddress ==
    /\ \A i, j \in Slots :
         (i # j /\ g_devices[i].in_use /\ g_devices[j].in_use)
           => g_devices[i].addr # g_devices[j].addr
    /\ DOMAIN g_devices = Slots
    /\ Cardinality({i \in Slots : g_devices[i].in_use}) <= MAX_DEVICES

\* With every slot taken, an event of the first sender has found its slot.
C17_Witness ==
    /\ Full /\ ipc = "give" /\ idx = 0
    /\ ev.addr = Addr(1) /\ g_devices[0].addr = Addr(1)

\* C18: no step of an ingest without service data changes the service fields
\* of its record, none of an ingest without manufacturer data the
\* manufacturer fields, and no step of gap_event_cb changes a slot in use of
\* another address than the event's.
C18_IngestTouchesItsFieldsOnly ==
    [][/\ (Updating /\ ~ex.has_svc)
            => SvcOf(g_devices'[idx]) = SvcOf(g_devices[idx])
       /\ (Updating /\ ~ex.has_mfg)
            => MfgOf(g_devices'[idx]) = MfgOf(g_devices[idx])
       /\ (ipc # "idle" /\ ipc' # ipc)
            => \A i \in Slots :
                 (g_devices[i].in_use /\ g_devices[i].addr # ev.addr)
                   => g_devices'[i] = g_devices[i]]_vars

\* A manufacturer-only event to a record that has service data, while the
\* record of another address is a valid merged reading.
C18_Witness ==
    /\ ipc = "give" /\ idx = 0 /\ ex.has_mfg /\ ~ex.has_svc
    /\ g_devices[0].have_svc /\ g_devices[0].svc_len = 2 /\ pre_valid
    /\ g_devices[1].in_use /\ ValidMerged(g_devices[1])

QueryStep == qpc \in {"take", "read", "scan", "copy", "give"} /\ qpc' # qpc

\* C20: no step of a LATEST or LATEST_FOR handler changes a slot or
\* g_latest_index.
C20_QueriesLeaveRegistry ==
    [][QueryStep => UNCHANGED registry]_vars

\* C20 where xSemaphoreCreateMutex returned a mutex.
C20_LockedCase ==
    [][(g_lock = "mutex" /\ QueryStep) => UNCHANGED registry]_vars

====
